---- MODULE Spec2Model ----
(***************************************************************************)
(* Model of the Leadway authentication backend (src/routes/auth.js,        *)
(* src/middleware/authMiddleware.js, the User schema).  Each request is    *)
(* served in a slot; a handler is split at the awaits where another        *)
(* request can observe or change the user store.                           *)
(***************************************************************************)
EXTENDS Integers, Sequences, FiniteSets, TLC

\* ------------------------------------------------------------------ bounds
MaxTime == 2            \* the clock runs 0..MaxTime
MaxIds == 2             \* at most MaxIds user documents are ever created

\* ------------------------------------------------- configuration, in ticks
VerifyTTL == 2          \* expiresIn: "1h" of the verification token
AccessTTL == 1          \* process.env.JWT_EXPIRES_IN
RefreshTTL == 2         \* process.env.REFRESH_TOKEN_EXPIRES_IN

Slots == {1, 2}         \* requests suspended at an await at the same time

JWT_SECRET == "JWT_SECRET"
REFRESH_TOKEN_SECRET == "REFRESH_TOKEN_SECRET"

\* ------------------------------------------------------------ input values
\* Text is a sequence of one-character strings, so validators can look at it.
Digits == {"0", "1", "2", "3", "4", "5", "6", "7", "8", "9"}
Uppers == {"A", "B", "C", "D", "E", "F", "G", "H", "I", "J", "K", "L", "M",
           "N", "O", "P", "Q", "R", "S", "T", "U", "V", "W", "X", "Y", "Z"}

EmailA == <<"a", "@", "x", ".", "c", "o">>
EmailB == <<"b", "@", "x", ".", "c", "o">>
BadEmail == <<"a", "x", ".", "c", "o">>
PwGood == <<"P", "a", "s", "s", "w", "0", "r", "d">>
PwOther == <<"O", "t", "h", "e", "r", "1", "p", "w">>
PwWeak == <<"p", "a", "s", "s">>
NameA == <<"A", " ", "U">>
Empty == <<>>
PwNoDigit == <<"P", "a", "s", "s", "w", "o", "r", "d">>
PwNoUpper == <<"p", "a", "s", "s", "w", "0", "r", "d">>
PwShort == <<"P", "w", "0">>
PwLower == <<"p", "a", "s", "s", "w", "o", "r", "d">>

\* What callers send.
Emails == {EmailA, EmailB, BadEmail}
SignupNames == {NameA}
SignupPasswords == {PwGood, PwWeak}
SigninPasswords == {PwGood, PwOther, Empty}
AnyNames == {NameA, Empty}
AnyPasswords == {PwGood, PwWeak, PwNoDigit, PwNoUpper, PwShort, PwLower}
Salts == {"s1"}         \* bcrypt.genSalt draws from here; no handler reads the salt

\* ------------------------------------------------------------- validators
\* body(f).notEmpty()
notEmpty(s) == Len(s) > 0

\* body("email").isEmail(): one "@", a non-empty local part, a dotted domain.
isEmail(s) ==
    \E i \in 1..Len(s) :
        /\ s[i] = "@"
        /\ \A j \in 1..Len(s) : s[j] = "@" => j = i
        /\ i > 1
        /\ \E k \in (i + 2)..(Len(s) - 1) : s[k] = "."

\* .matches(/\d/) and .matches(/[A-Z]/)
matchesDigit(s) == \E i \in 1..Len(s) : s[i] \in Digits
matchesUpper(s) == \E i \in 1..Len(s) : s[i] \in Uppers

\* An entry of validationResult(req).array(): the field, the value that was
\* submitted for it, and the message of the rule it violated.
fieldError(path, value, msg) == [path |-> path, value |-> value, msg |-> msg]

\* A chain that stops at the first rule it finds violated.
signupErrorsBail(fullName, email, password) ==
    IF ~notEmpty(fullName)
    THEN {fieldError("fullName", fullName, "Full Name is required")}
    ELSE IF ~isEmail(email)
    THEN {fieldError("email", email, "Please enter a valid email")}
    ELSE IF Len(password) < 8
    THEN {fieldError("password", password,
                     "Password Must be at least 8 characters")}
    ELSE IF ~matchesDigit(password)
    THEN {fieldError("password", password, "Password Must contain a number")}
    ELSE IF ~matchesUpper(password)
    THEN {fieldError("password", password,
                     "Password Must contain an uppercase letter")}
    ELSE {}

\* The validation chain of POST /signup: every violated rule is collected.
signupErrors(fullName, email, password) ==
    (IF notEmpty(fullName) THEN {}
     ELSE {fieldError("fullName", fullName, "Full Name is required")})
    \cup (IF isEmail(email) THEN {}
          ELSE {fieldError("email", email, "Please enter a valid email")})
    \cup (IF Len(password) >= 8 THEN {}
          ELSE {fieldError("password", password,
                           "Password Must be at least 8 characters")})
    \cup (IF matchesDigit(password) THEN {}
          ELSE {fieldError("password", password,
                           "Password Must contain a number")})
    \cup (IF matchesUpper(password) THEN {}
          ELSE {fieldError("password", password,
                           "Password Must contain an uppercase letter")})

\* The validation chain of POST /signin.
signinErrors(email, password) ==
    (IF isEmail(email) THEN {}
     ELSE {fieldError("email", email, "Please enter a valid email")})
    \cup (IF notEmpty(password) THEN {}
          ELSE {fieldError("password", password, "Password is required")})

\* ---------------------------------------------------------------- bcrypt
\* A hash is the marker, the salt, and the digest (which stands for the
\* password it was computed from: compare recomputes it under the salt).
\* The password stored as it was sent.
bcryptHashPlaintext(password, salt) == password

bcryptHash(password, salt) == <<"$2a$10$", salt>> \o password

bcryptCompare(password, hash) ==
    /\ Len(hash) >= 2
    /\ hash[1] = "$2a$10$"
    /\ SubSeq(hash, 3, Len(hash)) = password

\* ------------------------------------------------------------------- jwt
NoEmail == <<>>
NoToken == [secret |-> "none", id |-> 0, email |-> NoEmail, exp |-> 0]

\* jwt.sign(payload, secret, {expiresIn})
jwtSign(id, email, secret, ttl, t) ==
    [secret |-> secret, id |-> id, email |-> email, exp |-> t + ttl]

\* jwt.verify(token, secret): the signature is the secret's, and not expired.
jwtVerify(token, secret, t) == token.secret = secret /\ t < token.exp

\* ------------------------------------------------------------ user store
NoUser == [id |-> 0, fullName |-> Empty, email |-> NoEmail,
           password |-> Empty, verified |-> FALSE]


VARIABLES users,    \* the User collection: a set of documents
          nextId,   \* the next _id a saved document gets
          now,      \* the clock jwt reads
          outbox,   \* the mails transporter.sendMail delivered
          held,     \* the access and refresh tokens a caller holds
          spent,    \* history: the held refresh tokens already exchanged
          req,      \* per slot: a request suspended at an await
          last      \* the request whose response is being written out

vars == <<users, nextId, now, outbox, held, spent, req, last>>

\* User.findOne({ email })
findOne(us, email) ==
    IF \E u \in us : u.email = email
    THEN CHOOSE u \in us : u.email = email
    ELSE NoUser

\* User.findById(id)
findById(us, id) ==
    IF \E u \in us : u.id = id
    THEN CHOOSE u \in us : u.id = id
    ELSE NoUser

\* A collection created without the unique index accepts every document.
duplicateKeyNoIndex(us, doc) == FALSE

\* The unique index on email rejects a second document with the same email.
duplicateKey(us, doc) == \E u \in us : u.email = doc.email

\* The document as it is stored.
selectAll(u) == u

\* .select("-password")
selectNoPassword(u) == [f \in DOMAIN u \ {"password"} |-> u[f]]

\* ------------------------------------------------------------- responses
NoBody == [absent |-> TRUE]
NoResp == [status |-> 0, message |-> "", errors |-> {},
           accessToken |-> NoToken, refreshToken |-> NoToken, user |-> NoBody]

\* res.status(status).json({ message })
Reply(status, message) == [NoResp EXCEPT !.status = status, !.message = message]

NoReqUser == [id |-> 0, email |-> NoEmail]

\* A request: its inputs, the handler's locals, and what was answered.
\*   err        what the handler's catch caught ("" when nothing was thrown)
\*   unhandled  an exception left the handler uncaught
Idle == [op |-> "none", pc |-> "idle", fullName |-> Empty, email |-> NoEmail,
         password |-> Empty, hdr |-> "absent", token |-> NoToken,
         newUser |-> NoUser, vtoken |-> NoToken, existingUser |-> NoUser,
         reqUser |-> NoReqUser, handlerPending |-> FALSE,
         errorPending |-> FALSE, err |-> "", unhandled |-> FALSE,
         reused |-> FALSE, resp |-> NoResp]

\* Steps are taken one at a time: an answer is written out before the next
\* step starts.
Ready == last.pc = "idle"

\* A slot is taken while a handler is suspended in it; a new request takes
\* the lowest free slot.
Free(r) ==
    /\ Ready
    /\ req[r].pc = "idle"
    /\ \A s \in Slots : s < r => req[s].pc # "idle"

\* No handler is suspended.
Quiet == \A s \in Slots : req[s].pc = "idle"

\* A caller keeps the tokens of its latest signin, and the access tokens it
\* was given for that signin's refresh token since.
Held(resp, before) ==
    IF resp.refreshToken # NoToken
    THEN {resp.accessToken, resp.refreshToken}
    ELSE IF resp.accessToken # NoToken
    THEN before \cup {resp.accessToken}
    ELSE before

\* The tokens a caller can present: those mailed or returned, a token whose
\* signature does not verify, and a validly signed access token whose user
\* document is no longer in the collection.
OrphanId == MaxIds + 1
ForgedToken == [secret |-> "forged", id |-> 1, email |-> EmailA, exp |-> MaxTime + 1]
OrphanToken == [secret |-> JWT_SECRET, id |-> OrphanId, email |-> EmailB,
                exp |-> MaxTime + 1]
MailedTokens == {m.token : m \in outbox}
ClientTokens == MailedTokens \cup held \cup {ForgedToken, OrphanToken}

Init ==
    /\ users = {}
    /\ nextId = 1
    /\ now = 0
    /\ outbox = {}
    /\ held = {}
    /\ spent = {}
    /\ req = [r \in Slots |-> Idle]
    /\ last = Idle

\* The request is answered: it leaves its slot.
Answered(q, resp) == [q EXCEPT !.pc = "done", !.resp = resp]

\* ---------------------------------------------------------- POST /signup
InFlightSaves == Cardinality({s \in Slots : req[s].pc = "signup_save"})

\* A signup that mails a fresh verification token to a stored user who is
\* not verified yet.
SignupHandlerResend(r, fullName, email, password) ==
    LET errs == signupErrors(fullName, email, password)
        existingUser == findOne(users, email)
        q == [Idle EXCEPT !.op = "signup", !.fullName = fullName,
                          !.email = email, !.password = password]
    IN  /\ Free(r)
        /\ IF errs # {}
           THEN /\ last' = Answered(q, [NoResp EXCEPT !.status = 400,
                                                     !.errors = errs])
                /\ req' = req
                /\ outbox' = outbox
           ELSE IF existingUser # NoUser /\ ~existingUser.verified
           THEN /\ last' = Answered([q EXCEPT !.existingUser = existingUser],
                                    Reply(400, "User already exists"))
                /\ req' = req
                /\ outbox' = outbox \cup
                      {[to |-> email, fullName |-> existingUser.fullName,
                        token |-> jwtSign(existingUser.id, NoEmail, JWT_SECRET,
                                          VerifyTTL, now)]}
           ELSE IF existingUser # NoUser
           THEN /\ last' = Answered([q EXCEPT !.existingUser = existingUser],
                                    Reply(400, "User already exists"))
                /\ req' = req
                /\ outbox' = outbox
           ELSE /\ nextId + InFlightSaves <= MaxIds
                /\ req' = [req EXCEPT ![r] = [q EXCEPT !.pc = "signup_save"]]
                /\ last' = last
                /\ outbox' = outbox
        /\ UNCHANGED <<users, nextId, now, held, spent>>

\* Validation, then the lookup by email (the handler's first await).
SignupHandler(r, fullName, email, password) ==
    LET errs == signupErrors(fullName, email, password)
        existingUser == findOne(users, email)
        q == [Idle EXCEPT !.op = "signup", !.fullName = fullName,
                          !.email = email, !.password = password]
    IN  /\ Free(r)
        /\ IF errs # {}
           THEN /\ last' = Answered(q, [NoResp EXCEPT !.status = 400,
                                                     !.errors = errs])
                /\ req' = req
           ELSE IF existingUser # NoUser
           THEN /\ last' = Answered([q EXCEPT !.existingUser = existingUser],
                                    Reply(400, "User already exists"))
                /\ req' = req
           ELSE /\ nextId + InFlightSaves <= MaxIds
                /\ req' = [req EXCEPT ![r] = [q EXCEPT !.pc = "signup_save"]]
                /\ last' = last
        /\ UNCHANGED <<users, nextId, now, outbox, held, spent>>

Signup(r) ==
    \E fullName \in SignupNames, email \in Emails, password \in SignupPasswords :
        SignupHandler(r, fullName, email, password)

\* POST /signup with bodies that violate each rule alone and together.
SignupAnyBody(r) ==
    \E fullName \in AnyNames, email \in Emails, password \in AnyPasswords :
        SignupHandler(r, fullName, email, password)

\* new User({...}) with the hashed password and verified: false
newUserDoc(id, fullName, email, hashedPassword) ==
    [id |-> id, fullName |-> fullName, email |-> email,
     password |-> hashedPassword, verified |-> FALSE]

\* { timestamps: true }: save() stamps createdAt and updatedAt.
saved(doc, t) ==
    [id |-> doc.id, fullName |-> doc.fullName, email |-> doc.email,
     password |-> doc.password, verified |-> doc.verified,
     createdAt |-> t, updatedAt |-> t]

\* bcrypt.genSalt/hash, newUser.save(), and the verification token signed
\* from the saved document's id.  A rejected save lands in the catch.
SignupSave(r) ==
    \E salt \in Salts :
        LET q == req[r]
            doc == saved(newUserDoc(nextId, q.fullName, q.email,
                                    bcryptHash(q.password, salt)), now)
        IN  /\ Ready
            /\ q.pc = "signup_save"
            /\ IF duplicateKey(users, doc)
               THEN /\ last' = Answered([q EXCEPT !.err = "E11000 duplicate key"],
                                        Reply(500, "Server error"))
                    /\ req' = [req EXCEPT ![r] = Idle]
                    /\ UNCHANGED <<users, nextId>>
               ELSE /\ users' = users \cup {doc}
                    /\ nextId' = nextId + 1
                    /\ req' = [req EXCEPT
                         ![r].pc = "signup_mail",
                         ![r].newUser = doc,
                         ![r].vtoken = jwtSign(doc.id, NoEmail, JWT_SECRET,
                                               VerifyTTL, now)]
                    /\ last' = last
            /\ UNCHANGED <<now, outbox, held, spent>>

\* A catch that deletes the saved document when the mail is rejected.
SignupSendMailRollback(r) ==
    \E delivered \in BOOLEAN :
        LET q == req[r]
        IN  /\ Ready
            /\ q.pc = "signup_mail"
            /\ IF delivered
               THEN /\ outbox' = outbox \cup {[to |-> q.email,
                                              fullName |-> q.fullName,
                                              token |-> q.vtoken]}
                    /\ users' = users
                    /\ last' = Answered(q, Reply(201, "Signup successful! Please check your email to verify your account"))
               ELSE /\ outbox' = outbox
                    /\ users' = users \ {q.newUser}
                    /\ last' = Answered([q EXCEPT !.err = "sendMail failed"],
                                        Reply(500, "Server error"))
            /\ req' = [req EXCEPT ![r] = Idle]
            /\ UNCHANGED <<nextId, now, held, spent>>

\* transporter.sendMail resolves or rejects; the catch answers 500.
SignupSendMail(r) ==
    \E delivered \in BOOLEAN :
        LET q == req[r]
        IN  /\ Ready
            /\ q.pc = "signup_mail"
            /\ IF delivered
               THEN /\ outbox' = outbox \cup {[to |-> q.email,
                                              fullName |-> q.fullName,
                                              token |-> q.vtoken]}
                    /\ last' = Answered(q, Reply(201, "Signup successful! Please check your email to verify your account"))
               ELSE /\ outbox' = outbox
                    /\ last' = Answered([q EXCEPT !.err = "sendMail failed"],
                                        Reply(500, "Server error"))
            /\ req' = [req EXCEPT ![r] = Idle]
            /\ UNCHANGED <<users, nextId, now, held, spent>>

\* ------------------------------------------------ GET /verify-email/:token
\* An update whose filter matches every document.
setVerifiedAll(us, id, t) ==
    {[u EXCEPT !.verified = TRUE, !.updatedAt = t] : u \in us}

\* An update that flips the flag instead of setting it.
setVerifiedToggle(us, id, t) ==
    {IF u.id = id THEN [u EXCEPT !.verified = ~u.verified, !.updatedAt = t]
     ELSE u : u \in us}

\* An update that replaces the document instead of setting one field.
setVerifiedReplace(us, id, t) ==
    {IF u.id = id
     THEN [NoUser EXCEPT !.id = id, !.verified = TRUE] @@
          [createdAt |-> u.createdAt, updatedAt |-> t]
     ELSE u : u \in us}

\* User.findOneAndUpdate({ _id }, { verified: true }, { new: true }); with
\* timestamps the update also sets updatedAt.
setVerified(us, id, t) ==
    {IF u.id = id THEN [u EXCEPT !.verified = TRUE, !.updatedAt = t] ELSE u :
        u \in us}

\* A verification that checks the signature and not the expiry.
verifyAcceptsExpired(token, t) == token.secret = JWT_SECRET

\* jwt.verify under JWT_SECRET; a throw lands in the catch (400).
verifyAccepts(token, t) == jwtVerify(token, JWT_SECRET, t)

VerifyEmail ==
    \E token \in ClientTokens :
        LET q == [Idle EXCEPT !.op = "verify", !.token = token]
            user == findById(setVerified(users, token.id, now), token.id)
        IN  IF ~verifyAccepts(token, now)
            THEN /\ Ready
                 /\ last' = Answered([q EXCEPT !.err = "JsonWebTokenError"],
                       Reply(400, "Invalid or expired verification token. Please request a new verification email."))
                 /\ UNCHANGED <<users, nextId, now, outbox, held, spent, req>>
            ELSE /\ Ready
                 /\ users' = setVerified(users, token.id, now)
                 /\ last' = IF user = NoUser
                            THEN Answered(q, Reply(400, "User Not Found"))
                            ELSE Answered([q EXCEPT !.existingUser = user],
                                   [Reply(200, "Email Verified Successfully!")
                                      EXCEPT !.user = [fullName |-> user.fullName]])
                 /\ UNCHANGED <<nextId, now, outbox, held, spent, req>>

\* ---------------------------------------------------------- POST /signin
\* Both tokens signed with the access secret.
generateTokensOneSecret(user, t) ==
    [accessToken |-> jwtSign(user.id, user.email, JWT_SECRET, AccessTTL, t),
     refreshToken |-> jwtSign(user.id, user.email, JWT_SECRET, RefreshTTL, t)]

generateTokens(user, t) ==
    [accessToken |-> jwtSign(user.id, user.email, JWT_SECRET, AccessTTL, t),
     refreshToken |-> jwtSign(user.id, user.email, REFRESH_TOKEN_SECRET,
                              RefreshTTL, t)]

\* Sign-in without the verified check.
signinResponseNoGate(existingUser, password, t) ==
    IF existingUser = NoUser
    THEN Reply(400, "Invalid email or password")
    ELSE IF ~bcryptCompare(password, existingUser.password)
    THEN Reply(400, "Invalid email or password")
    ELSE [Reply(200, "Login Successful") EXCEPT
            !.accessToken = jwtSign(existingUser.id, existingUser.email,
                                    JWT_SECRET, AccessTTL, t),
            !.refreshToken = jwtSign(existingUser.id, existingUser.email,
                                     REFRESH_TOKEN_SECRET, RefreshTTL, t),
            !.user = [id |-> existingUser.id,
                      fullName |-> existingUser.fullName,
                      email |-> existingUser.email]]

\* Sign-in that tells an unknown email from a wrong password.
signinResponseTelling(existingUser, password, t) ==
    IF existingUser = NoUser
    THEN Reply(404, "User not found")
    ELSE IF ~existingUser.verified
    THEN Reply(401, "Please verify your email before logging in.")
    ELSE IF ~bcryptCompare(password, existingUser.password)
    THEN Reply(400, "Invalid email or password")
    ELSE [Reply(200, "Login Successful") EXCEPT
            !.accessToken = jwtSign(existingUser.id, existingUser.email,
                                    JWT_SECRET, AccessTTL, t),
            !.refreshToken = jwtSign(existingUser.id, existingUser.email,
                                     REFRESH_TOKEN_SECRET, RefreshTTL, t),
            !.user = [id |-> existingUser.id,
                      fullName |-> existingUser.fullName,
                      email |-> existingUser.email]]

\* The handler's decisions after the lookup, in the order the code takes them.
signinResponse(existingUser, password, t) ==
    IF existingUser = NoUser
    THEN Reply(400, "Invalid email or password")
    ELSE IF ~existingUser.verified
    THEN Reply(401, "Please verify your email before logging in.")
    ELSE IF ~bcryptCompare(password, existingUser.password)
    THEN Reply(400, "Invalid email or password")
    ELSE [Reply(200, "Login Successful") EXCEPT
            !.accessToken = generateTokens(existingUser, t).accessToken,
            !.refreshToken = generateTokens(existingUser, t).refreshToken,
            !.user = [id |-> existingUser.id,
                      fullName |-> existingUser.fullName,
                      email |-> existingUser.email]]

Signin ==
    \E email \in Emails, password \in SigninPasswords :
        LET errs == signinErrors(email, password)
            existingUser == findOne(users, email)
            q == [Idle EXCEPT !.op = "signin", !.email = email,
                              !.password = password,
                              !.existingUser = IF errs # {} THEN NoUser
                                               ELSE existingUser]
            resp == IF errs # {}
                    THEN [NoResp EXCEPT !.status = 400, !.errors = errs]
                    ELSE signinResponse(existingUser, password, now)
        IN  /\ Ready
            /\ last' = Answered(q, resp)
            /\ held' = Held(resp, held)
            /\ spent' = spent \cap held'
            /\ UNCHANGED <<users, nextId, now, outbox, req>>

\* --------------------------------------------------------- POST /refresh
\* jwt.verify with ignoreExpiration: only the signature is checked.
refreshResponseIgnoreExpiration(refreshToken, t) ==
    IF refreshToken = NoToken
    THEN Reply(401, "No refresh token provided")
    ELSE IF refreshToken.secret # REFRESH_TOKEN_SECRET
    THEN Reply(403, "Invalid refresh token")
    ELSE [NoResp EXCEPT
            !.status = 200,
            !.accessToken = jwtSign(refreshToken.id, refreshToken.email,
                                    JWT_SECRET, AccessTTL, t)]

\* Refresh tokens verified under the access secret.
refreshResponseAccessSecret(refreshToken, t) ==
    IF refreshToken = NoToken
    THEN Reply(401, "No refresh token provided")
    ELSE IF ~jwtVerify(refreshToken, JWT_SECRET, t)
    THEN Reply(403, "Invalid refresh token")
    ELSE [NoResp EXCEPT
            !.status = 200,
            !.accessToken = jwtSign(refreshToken.id, refreshToken.email,
                                    JWT_SECRET, AccessTTL, t)]

\* Single-use refresh tokens: one already exchanged is refused.
refreshResponseRotating(refreshToken, t) ==
    IF refreshToken = NoToken
    THEN Reply(401, "No refresh token provided")
    ELSE IF \/ ~jwtVerify(refreshToken, REFRESH_TOKEN_SECRET, t)
            \/ refreshToken \in spent
    THEN Reply(403, "Invalid refresh token")
    ELSE [NoResp EXCEPT
            !.status = 200,
            !.accessToken = jwtSign(refreshToken.id, refreshToken.email,
                                    JWT_SECRET, AccessTTL, t)]

refreshResponse(refreshToken, t) ==
    IF refreshToken = NoToken
    THEN Reply(401, "No refresh token provided")
    ELSE IF ~jwtVerify(refreshToken, REFRESH_TOKEN_SECRET, t)
    THEN Reply(403, "Invalid refresh token")
    ELSE [NoResp EXCEPT
            !.status = 200,
            !.accessToken = jwtSign(refreshToken.id, refreshToken.email,
                                    JWT_SECRET, AccessTTL, t)]

Refresh ==
    \E refreshToken \in ClientTokens \cup {NoToken} :
        LET q == [Idle EXCEPT !.op = "refresh", !.token = refreshToken,
                              !.reused = refreshToken \in spent]
            resp == refreshResponse(refreshToken, now)
        IN  /\ Ready
            /\ last' = Answered(q, resp)
            /\ held' = Held(resp, held)
            /\ spent' = IF resp.status = 200 THEN spent \cup {refreshToken}
                        ELSE spent
            /\ UNCHANGED <<users, nextId, now, outbox, req>>

\* ------------------------------------------- authenticate, GET /profile
\* The Authorization header: <<>> when absent, else <<scheme, credential>>.
NoHeader == <<>>
Headers == {NoHeader, <<"Basic", ForgedToken>>}
           \cup {<<"Bearer", token>> : token \in ClientTokens}

\* !authHeader || !authHeader.startsWith("Bearer ")
missingBearer(authHeader) == authHeader = NoHeader \/ authHeader[1] # "Bearer"

\* A middleware that verifies under either secret.
authenticateEitherSecret(authHeader, t) ==
    IF missingBearer(authHeader)
    THEN [resp |-> Reply(401, "Access token missing"), next |-> FALSE,
          user |-> NoReqUser, threw |-> FALSE]
    ELSE IF /\ ~jwtVerify(authHeader[2], JWT_SECRET, t)
            /\ ~jwtVerify(authHeader[2], REFRESH_TOKEN_SECRET, t)
    THEN [resp |-> Reply(403, "Invalid or expired token"), next |-> FALSE,
          user |-> NoReqUser, threw |-> FALSE]
    ELSE [resp |-> NoResp, next |-> TRUE,
          user |-> [id |-> authHeader[2].id, email |-> authHeader[2].email],
          threw |-> TRUE]

\* The middleware: the response it sends itself (status 0: none), whether it
\* called next(), the req.user it attached, and whether it then threw.  After
\* the try block has called next(), the statement that follows reads err,
\* which is bound only inside the catch: a ReferenceError.
authenticate(authHeader, t) ==
    IF missingBearer(authHeader)
    THEN [resp |-> Reply(401, "Access token missing"), next |-> FALSE,
          user |-> NoReqUser, threw |-> FALSE]
    ELSE IF ~jwtVerify(authHeader[2], JWT_SECRET, t)
    THEN [resp |-> Reply(403, "Invalid or expired token"), next |-> FALSE,
          user |-> NoReqUser, threw |-> FALSE]
    ELSE [resp |-> NoResp, next |-> TRUE,
          user |-> [id |-> authHeader[2].id, email |-> authHeader[2].email],
          threw |-> TRUE]

\* The request enters the route: the middleware runs; on next() the handler
\* starts and suspends at its await; a throw of the middleware goes to the
\* framework's error handling, which answers 500 unless headers were sent.
\* The handler reads one document by id and writes nothing, so its steps
\* commute with those of a signup in flight: it starts with none suspended.
Profile(r) ==
    \E authHeader \in Headers :
        LET gate == authenticate(authHeader, now)
            q == IF authHeader = NoHeader
                 THEN [Idle EXCEPT !.op = "profile"]
                 ELSE [Idle EXCEPT !.op = "profile", !.hdr = authHeader[1],
                                   !.token = authHeader[2]]
        IN  /\ Free(r)
            /\ Quiet
            /\ IF ~gate.next
               THEN /\ last' = Answered(q, gate.resp)
                    /\ req' = req
               ELSE /\ req' = [req EXCEPT ![r] =
                         [q EXCEPT !.pc = "profile_await",
                                   !.reqUser = gate.user,
                                   !.handlerPending = TRUE,
                                   !.errorPending = gate.threw]]
                    /\ last' = last
            /\ UNCHANGED <<users, nextId, now, outbox, held, spent>>

\* What the handler means to send once findById has resolved.
profileResponse(us, reqUser) ==
    IF findById(us, reqUser.id) = NoUser
    THEN Reply(404, "User not found")
    ELSE [Reply(200, "Protected route accessed") EXCEPT
            !.user = selectNoPassword(findById(us, reqUser.id))]

\* The request is over once neither the handler nor the error handler is
\* still to run.
Settle(r, q) ==
    IF q.handlerPending \/ q.errorPending
    THEN /\ req' = [req EXCEPT ![r] = q]
         /\ last' = last
    ELSE /\ req' = [req EXCEPT ![r] = Idle]
         /\ last' = [q EXCEPT !.pc = "done"]

\* The handler resumes.  With headers already sent, res.json throws, the
\* catch's own res.json throws again, and the rejection is unhandled.
ProfileHandler(r) ==
    LET q == req[r]
    IN  /\ Ready
        /\ q.pc = "profile_await"
        /\ q.handlerPending
        /\ Settle(r, [q EXCEPT
               !.handlerPending = FALSE,
               !.existingUser = findById(users, q.reqUser.id),
               !.resp = IF q.resp = NoResp
                        THEN profileResponse(users, q.reqUser)
                        ELSE q.resp,
               !.err = IF q.resp = NoResp THEN "" ELSE "ERR_HTTP_HEADERS_SENT",
               !.unhandled = (q.resp # NoResp)])
        /\ UNCHANGED <<users, nextId, now, outbox, held, spent>>

\* The framework's default error handler answers the middleware's throw with
\* 500, or drops the connection when a response has already been sent.
ExpressErrorHandler(r) ==
    LET q == req[r]
    IN  /\ Ready
        /\ q.pc = "profile_await"
        /\ q.errorPending
        /\ Settle(r, [q EXCEPT
               !.errorPending = FALSE,
               !.resp = IF q.resp = NoResp
                        THEN Reply(500, "ReferenceError: err is not defined")
                        ELSE q.resp])
        /\ UNCHANGED <<users, nextId, now, outbox, held, spent>>

\* ------------------------------------------------------------------ time
\* The steps that resume a handler after the save (the mail, the profile
\* handler, the error handler) do not read the clock, so they commute with a
\* tick: the tick is taken before or after them, not in between.
Tick ==
    /\ Ready
    /\ \A s \in Slots : req[s].pc \in {"idle", "signup_save"}
    /\ now < MaxTime
    /\ now' = now + 1
    /\ UNCHANGED <<users, nextId, outbox, held, spent, req, last>>

\* The answer has been written to the connection.
Deliver ==
    /\ last.pc = "done"
    /\ last' = Idle
    /\ UNCHANGED <<users, nextId, now, outbox, held, spent, req>>

Next ==
    \/ \E r \in Slots : Signup(r)
    \/ \E r \in Slots : SignupSave(r)
    \/ \E r \in Slots : SignupSendMail(r)
    \/ VerifyEmail
    \/ Signin
    \/ Refresh
    \/ \E r \in Slots : Profile(r)
    \/ \E r \in Slots : ProfileHandler(r)
    \/ \E r \in Slots : ExpressErrorHandler(r)
    \/ Deliver
    \/ Tick

Spec == Init /\ [][Next]_vars

\* The signup route alone, under every kind of body.
NextSignup ==
    \/ \E r \in Slots : SignupAnyBody(r)
    \/ \E r \in Slots : SignupSave(r)
    \/ \E r \in Slots : SignupSendMail(r)
    \/ Deliver
    \/ Tick

SpecSignup == Init /\ [][NextSignup]_vars


\* ================================================================ claims
\* The request being answered, by operation.
Answering(op) == last.pc = "done" /\ last.op = op

\* The stored user the answered request's email names (NoUser when none).
Stored == findOne(users, last.email)

SigninValid == Answering("signin") /\ signinErrors(last.email, last.password) = {}
NoTokensIn(resp) == resp.accessToken = NoToken /\ resp.refreshToken = NoToken

\* C1: a sign-in that passes validation for a stored user whose verified
\* flag is false is answered 401 EmailNotVerified and carries no access or
\* refresh token, whatever the password.
C1_UnverifiedSigninGetsNoTokens ==
    (SigninValid /\ Stored # NoUser /\ ~Stored.verified)
        => /\ last.resp.status = 401
           /\ last.resp.message = "Please verify your email before logging in."
           /\ NoTokensIn(last.resp)

\* C1 witness: the correct password of an unverified user, answered 401.
C1_Witness ==
    /\ SigninValid
    /\ Stored # NoUser
    /\ ~Stored.verified
    /\ bcryptCompare(last.password, Stored.password)
    /\ last.resp.status = 401

\* A token mailed by signup: signed with the access secret, carrying only an id.
IsVerificationToken(token) ==
    token \in MailedTokens /\ token.secret = JWT_SECRET /\ token.email = NoEmail

\* C2: no step turns a verified flag from true to false, and a step that
\* turns a user's flag from false to true is a VerifyEmail request carrying
\* an unexpired verification token whose id is that user's id; so Signup,
\* Signin, Refresh and GetProfile change no verified flag.
C2_VerifiedOnlyByVerification ==
    [][/\ \A u \in users : u.verified =>
             \E v \in users' : v.id = u.id /\ v.verified
       /\ \A u \in users : \A v \in users' :
             (v.id = u.id /\ ~u.verified /\ v.verified) =>
                 /\ last'.pc = "done"
                 /\ last'.op = "verify"
                 /\ last'.token.id = u.id
                 /\ IsVerificationToken(last'.token)
                 /\ now < last'.token.exp]_vars

\* C2 witness: a verification answered 200 for one of two stored users; the
\* other is still unverified.
C2_Witness ==
    /\ Answering("verify")
    /\ last.resp.status = 200
    /\ \E u \in users : u.id = last.token.id /\ u.verified
    /\ \E u \in users : u.id # last.token.id /\ ~u.verified

SignupValid ==
    /\ Answering("signup")
    /\ signupErrors(last.fullName, last.email, last.password) = {}

\* C3: a signup that passes validation and whose email belongs to a stored
\* user other than one it saved itself is answered 400 "User already
\* exists", also when it lost the race of two concurrent signups.
C3_DuplicateSignupAnswered400 ==
    (SignupValid /\ Stored # NoUser /\ Stored.id # last.newUser.id)
        => /\ last.resp.status = 400
           /\ last.resp.message = "User already exists"

\* C4: the store holds at most one user per email.
C4_OneUserPerEmail ==
    \A u \in users : \A v \in users : u.email = v.email => u = v

\* C4 witness: the save of a concurrent signup for a stored email was refused.
C4_Witness ==
    /\ Answering("signup")
    /\ last.err = "E11000 duplicate key"
    /\ \E u \in users : u.email = last.email

\* C5: a valid signup whose email the store did not hold when the document
\* was saved, and whose mail was delivered, is answered 201; the store holds
\* exactly one user of that email, the one it saved, unverified, its
\* password the hash and not the plaintext; exactly one mail went to that
\* address and its token carries the new user's id.
C5_SignupPersistsAndMails ==
    (SignupValid /\ last.existingUser = NoUser /\ last.err = "")
        => /\ last.resp.status = 201
           /\ Cardinality({u \in users : u.email = last.email}) = 1
           /\ Stored = last.newUser
           /\ Stored.verified = FALSE
           /\ Stored.password # last.password
           /\ bcryptCompare(last.password, Stored.password)
           /\ Cardinality({m \in outbox : m.to = last.email}) = 1
           /\ \A m \in outbox : m.to = last.email =>
                 /\ m.token.id = Stored.id
                 /\ m.token.secret = JWT_SECRET
           /\ NoTokensIn(last.resp)

\* C5 witness: a signup answered 201 while another user is already stored.
C5_Witness ==
    /\ SignupValid
    /\ last.resp.status = 201
    /\ Cardinality(users) = 2

\* The gate let the request through to the handler.
GatePassed == Answering("profile") /\ last.reqUser # NoReqUser

PublicFields(u) ==
    [id |-> u.id, fullName |-> u.fullName, email |-> u.email,
     verified |-> u.verified]

\* C6: GET /profile with an unexpired access token of a stored user is
\* answered once, with 200 and the user's public fields without the
\* password, and nothing is thrown by the gate or the handler.
C6_ProfileAnswered200 ==
    (GatePassed /\ last.token.email # NoEmail
                /\ findById(users, last.token.id) # NoUser)
        => /\ last.resp.status = 200
           /\ "password" \notin DOMAIN last.resp.user
           /\ PublicFields(last.resp.user)
                 = PublicFields(findById(users, last.token.id))
           /\ ~last.unhandled

\* C7: GET /profile is answered 401 without a Bearer header, 403 when the
\* bearer token does not verify, and 404 when it verifies but its id names
\* no stored user, each as the request's single response.
C7_ProfileFailureStatuses ==
    Answering("profile") =>
        /\ last.hdr # "Bearer" => last.resp.status = 401
        /\ (last.hdr = "Bearer" /\ last.reqUser = NoReqUser)
               => last.resp.status = 403
        /\ (GatePassed /\ findById(users, last.token.id) = NoUser)
               => (last.resp.status = 404 /\ ~last.unhandled)

\* C8: a verification token presented as the bearer credential of GET
\* /profile is refused by the gate with 403.
C8_VerificationTokenRefusedByGate ==
    (Answering("profile") /\ last.hdr = "Bearer"
                          /\ IsVerificationToken(last.token))
        => /\ last.resp.status = 403
           /\ last.reqUser = NoReqUser

PasswordMatches == Stored # NoUser /\ bcryptCompare(last.password, Stored.password)

\* C9 as stated: a valid sign-in with an unknown email or a password that
\* does not match is answered 400 "Invalid email or password", whatever
\* the stored user's verified flag.
C9_InvalidCredentialsWhateverVerified ==
    (SigninValid /\ ~PasswordMatches)
        => /\ last.resp.status = 400
           /\ last.resp.message = "Invalid email or password"

\* C9 amended: a valid sign-in with an unknown email, or with a password that
\* does not match a verified user's hash, is answered 400 "Invalid email or
\* password"; for a stored unverified user the answer is 401 whatever the
\* password.
C9_InvalidCredentialsUnlessUnverified ==
    /\ (SigninValid /\ ~PasswordMatches /\ (Stored = NoUser \/ Stored.verified))
          => /\ last.resp.status = 400
             /\ last.resp.message = "Invalid email or password"
             /\ NoTokensIn(last.resp)
    /\ (SigninValid /\ ~PasswordMatches /\ Stored # NoUser /\ ~Stored.verified)
          => /\ last.resp.status = 401
             /\ NoTokensIn(last.resp)

\* C9 witness: a wrong password for a verified user, answered 400.
C9_Witness ==
    /\ SigninValid
    /\ Stored # NoUser
    /\ Stored.verified
    /\ ~PasswordMatches
    /\ last.resp.status = 400

\* C10: a valid sign-in with the password of a verified user is answered 200
\* with an access and a refresh token; each verifies under its own secret,
\* and both carry the user's id and email.
C10_SigninIssuesVerifiableTokens ==
    (SigninValid /\ PasswordMatches /\ Stored.verified)
        => /\ last.resp.status = 200
           /\ last.resp.accessToken # NoToken
           /\ last.resp.refreshToken # NoToken
           /\ jwtVerify(last.resp.accessToken, JWT_SECRET, now)
           /\ jwtVerify(last.resp.refreshToken, REFRESH_TOKEN_SECRET, now)
           /\ last.resp.accessToken.id = Stored.id
           /\ last.resp.refreshToken.id = Stored.id
           /\ last.resp.accessToken.email = Stored.email
           /\ last.resp.refreshToken.email = Stored.email

\* C10 witness: a sign-in answered 200 for the second user stored.
C10_Witness ==
    /\ SigninValid
    /\ PasswordMatches
    /\ Stored.verified
    /\ last.resp.status = 200
    /\ Cardinality(users) = 2

\* C11: a refresh request without a token is answered 401; one whose token
\* carries the refresh secret's signature and has not expired is answered 200
\* with an access token of the same id and email, signed with the access
\* secret and valid for AccessTTL from now; any other token (expired, or not
\* signed with the refresh secret) is answered 403 and gets no access token.
C11_RefreshAnswers ==
    Answering("refresh") =>
        IF last.token = NoToken
        THEN /\ last.resp.status = 401
             /\ last.resp.message = "No refresh token provided"
             /\ NoTokensIn(last.resp)
        ELSE IF last.token.secret = REFRESH_TOKEN_SECRET /\ now < last.token.exp
        THEN /\ last.resp.status = 200
             /\ last.resp.accessToken.id = last.token.id
             /\ last.resp.accessToken.email = last.token.email
             /\ last.resp.accessToken.secret = JWT_SECRET
             /\ last.resp.accessToken.exp = now + AccessTTL
             /\ last.resp.refreshToken = NoToken
        ELSE /\ last.resp.status = 403
             /\ last.resp.message = "Invalid refresh token"
             /\ NoTokensIn(last.resp)

\* C11 witness: a refresh token of a stored user, exchanged before its expiry
\* for an access token of that user.
C11_Witness ==
    /\ Answering("refresh")
    /\ last.token.secret = REFRESH_TOKEN_SECRET
    /\ now < last.token.exp
    /\ last.resp.status = 200
    /\ \E u \in users : u.id = last.resp.accessToken.id
                        /\ u.email = last.resp.accessToken.email

\* A step that answers a GET /verify-email/:token request.
VerifyStep == last.pc = "idle" /\ last'.pc = "done" /\ last'.op = "verify"

\* The request that step answers carries an unexpired verification token of a
\* user who is already verified.
RepeatedVerification ==
    /\ VerifyStep
    /\ IsVerificationToken(last'.token)
    /\ now < last'.token.exp
    /\ \E u \in users : u.id = last'.token.id /\ u.verified

\* What a user document holds besides its timestamps.
Content(u) == [id |-> u.id, fullName |-> u.fullName, email |-> u.email,
               password |-> u.password, verified |-> u.verified]

\* C12 as stated: verifying an already verified user again is answered 200
\* and leaves the user store exactly as it was.
C12_RepeatLeavesStoreAsItWas ==
    [][RepeatedVerification =>
          /\ last'.resp.status = 200
          /\ users' = users]_vars

\* C12 amended: verifying an already verified user again is answered 200;
\* every user keeps its id, fullName, email, password hash and verified flag,
\* every other user's document is unchanged, and the one change to the store
\* is that user's updatedAt, set to the time of the request.
C12_RepeatKeepsAllButUpdatedAt ==
    [][RepeatedVerification =>
          /\ last'.resp.status = 200
          /\ {Content(v) : v \in users'} = {Content(u) : u \in users}
          /\ Cardinality(users') = Cardinality(users)
          /\ \A u \in users : u.id # last'.token.id => u \in users'
          /\ \A v \in users' : v.id = last'.token.id =>
                /\ v.verified
                /\ v.updatedAt = now]_vars

\* C12 witness: a verification token consumed again after its user has
\* signed in at an earlier time (so the user was verified before), answered
\* 200, the user's updatedAt now being the time of this request.
C12_Witness ==
    /\ Answering("verify")
    /\ IsVerificationToken(last.token)
    /\ last.resp.status = 200
    /\ \E u \in users :
          /\ u.id = last.token.id
          /\ u.verified
          /\ u.updatedAt = now
          /\ \E r \in held : /\ r.secret = REFRESH_TOKEN_SECRET
                              /\ r.id = u.id
                              /\ r.exp - RefreshTTL < now

\* The password hash of a stored user and the passwords it matches.
PasswordsOf(u) ==
    {u.password} \cup {p \in SignupPasswords \cup SigninPasswords :
                          bcryptCompare(p, u.password)}

\* The texts a response carries: the fields of its user body, the submitted
\* values its validation errors echo, and the email claim of its tokens.
TextIn(resp) ==
    {resp.user[f] : f \in DOMAIN resp.user \cap {"fullName", "email", "password"}}
    \cup {e.value : e \in resp.errors}
    \cup {resp.accessToken.email, resp.refreshToken.email}

\* The texts a verification mail carries.
MailText(m) == {m.to, m.fullName, m.token.email}

\* C13: no response and no mail carries the password hash of a stored user or
\* a password that matches it; no user body has a password field.
C13_NoPasswordLeaves ==
    /\ "password" \notin DOMAIN last.resp.user
    /\ \A u \in users :
          /\ TextIn(last.resp) \cap PasswordsOf(u) = {}
          /\ \A m \in outbox : MailText(m) \cap PasswordsOf(u) = {}

\* C13 witness: a profile answered 200 with the body of a stored user whose
\* verification mail is in the outbox.
C13_Witness ==
    /\ Answering("profile")
    /\ last.resp.status = 200
    /\ \E u \in users : /\ last.resp.user.id = u.id
                        /\ last.resp.user.email = u.email
                        /\ \E m \in outbox : m.to = u.email

\* A stored user whose verification mail was not delivered and is not about
\* to be sent.
Unmailed(u) ==
    /\ u \in users
    /\ \A m \in outbox : m.token.id # u.id
    /\ \A s \in Slots : req[s].pc = "signup_mail" => req[s].newUser.id # u.id

\* The signup whose mail was rejected by the transport.
MailFailed == Answering("signup") /\ last.err = "sendMail failed"

\* A step in which a signup arrives and is answered at once.
SignupArrivesAnswered ==
    /\ last.pc = "idle"
    /\ last'.pc = "done"
    /\ last'.op = "signup"
    /\ req' = req

\* C14: a signup whose mail is rejected after its document was saved is
\* answered 500 "Server error", and the document stays in the store as it was
\* saved, unverified; a valid signup that arrives while the store holds such
\* a user of its email is answered 400 "User already exists".
C14_MailFailureKeepsUser ==
    [][/\ MailFailed' =>
             /\ last'.resp.status = 500
             /\ last'.resp.message = "Server error"
             /\ last'.newUser \in users'
             /\ ~last'.newUser.verified
             /\ \A u \in users' : u.email = last'.email => u = last'.newUser
             /\ \A m \in outbox' : m.token # last'.vtoken
       /\ (/\ SignupArrivesAnswered
           /\ signupErrors(last'.fullName, last'.email, last'.password) = {}
           /\ \E u \in users : u.email = last'.email /\ Unmailed(u))
             => /\ last'.resp.status = 400
                /\ last'.resp.message = "User already exists"
                /\ users' = users]_vars

\* C14 witness: a valid signup answered 400 "User already exists" for the
\* email of a stored, unverified user whose mail was never delivered.
C14_Witness ==
    /\ SignupValid
    /\ last.resp.status = 400
    /\ last.resp.message = "User already exists"
    /\ Stored # NoUser
    /\ ~Stored.verified
    /\ Unmailed(Stored)

\* The messages of the signup rules a body violates.
ViolatedRules(fullName, email, password) ==
    {m \in {"Full Name is required", "Please enter a valid email",
            "Password Must be at least 8 characters",
            "Password Must contain a number",
            "Password Must contain an uppercase letter"} :
        \/ m = "Full Name is required" /\ fullName = Empty
        \/ m = "Please enter a valid email" /\ ~isEmail(email)
        \/ m = "Password Must be at least 8 characters" /\ Len(password) < 8
        \/ m = "Password Must contain a number"
              /\ \A i \in 1..Len(password) : password[i] \notin Digits
        \/ m = "Password Must contain an uppercase letter"
              /\ \A i \in 1..Len(password) : password[i] \notin Uppers}

\* A step that answers a POST /signup request.
SignupAnswered == last.pc = "idle" /\ last'.pc = "done" /\ last'.op = "signup"

\* C15: a signup is answered with validation errors exactly when its body
\* violates a rule; the answer then is 400, it is given when the request
\* arrives, its errors name every rule the body violates and no other, and
\* the step changes neither the users nor the mails sent nor starts a save.
C15_ValidationErrorListsEveryRule ==
    [][SignupAnswered =>
          LET violated == ViolatedRules(last'.fullName, last'.email,
                                        last'.password)
          IN  /\ (last'.resp.errors # {}) <=> (violated # {})
              /\ violated # {} =>
                    /\ last'.resp.status = 400
                    /\ {e.msg : e \in last'.resp.errors} = violated
                    /\ Cardinality(last'.resp.errors) = Cardinality(violated)
                    /\ last'.newUser = NoUser
                    /\ users' = users
                    /\ nextId' = nextId
                    /\ outbox' = outbox
                    /\ req' = req]_vars

\* C15 witness: a signup whose name is empty and whose password breaks all
\* three password rules, answered 400 with four errors while a user is stored.
C15_Witness ==
    /\ Answering("signup")
    /\ last.fullName = Empty
    /\ isEmail(last.email)
    /\ last.password = PwWeak
    /\ last.resp.status = 400
    /\ Cardinality(last.resp.errors) = 4
    /\ users # {}

\* C16: every request that has been answered got one response with a status;
\* no write to a response already sent was attempted, and no rejection was
\* left unhandled.
C16_ExactlyOneResponse ==
    last.pc = "done" =>
        /\ last.resp.status # 0
        /\ last.err # "ERR_HTTP_HEADERS_SENT"
        /\ ~last.unhandled

\* C17: a GET /verify-email request whose token is expired or does not carry
\* the signature of the secret it is verified under is answered 400 "Invalid
\* or expired verification token" and one whose token verifies but names no
\* stored user is answered 400 "User Not Found", both leaving the user store
\* as it was; one whose token verifies and names a stored user is answered
\* 200, sets that user's verified flag, and changes no other user's document
\* and no other content of that user's.
C17_VerifyFailureLeavesStore ==
    [][VerifyStep =>
          LET token == last'.token
              valid == token.secret = JWT_SECRET /\ now < token.exp
              named == {u \in users : u.id = token.id}
          IN  /\ ~valid =>
                    /\ last'.resp.status = 400
                    /\ last'.resp.message = "Invalid or expired verification token. Please request a new verification email."
                    /\ users' = users
              /\ (valid /\ named = {}) =>
                    /\ last'.resp.status = 400
                    /\ last'.resp.message = "User Not Found"
                    /\ users' = users
              /\ (valid /\ named # {}) =>
                    /\ last'.resp.status = 200
                    /\ \A u \in users \ named : u \in users'
                    /\ Cardinality(users') = Cardinality(users)
                    /\ \A u \in named :
                          [Content(u) EXCEPT !.verified = TRUE]
                              \in {Content(v) : v \in users'}]_vars

\* C17 witness: the mailed token of a stored, unverified user presented
\* after its expiry and answered 400; the user is still unverified.
C17_Witness ==
    /\ Answering("verify")
    /\ IsVerificationToken(last.token)
    /\ now >= last.token.exp
    /\ last.resp.status = 400
    /\ \E u \in users : u.id = last.token.id /\ ~u.verified

\* A step that answers a POST /refresh request.
RefreshStep == last.pc = "idle" /\ last'.pc = "done" /\ last'.op = "refresh"

SaveStep ==
    \E r \in Slots : req[r].pc = "signup_save" /\ req'[r].pc = "signup_mail"

\* C19: no step removes a user or changes a user's id, email, fullName or
\* password hash; a step that changes the store is either the save of a
\* signup, which adds one new user, or the answer to a verify-email request,
\* which changes one user, whose verified flag is then set; so signin,
\* refresh, profile and the gate change no user document.
C19_StoreChangedOnlyBySignupAndVerify ==
    [][/\ \A u \in users : \E v \in users' :
             /\ v.id = u.id
             /\ v.email = u.email
             /\ v.fullName = u.fullName
             /\ v.password = u.password
             /\ v.createdAt = u.createdAt
       /\ users' # users =>
             \/ /\ SaveStep
                /\ users \subseteq users'
                /\ Cardinality(users') = Cardinality(users) + 1
                /\ \A v \in users' \ users : \A u \in users : v.id # u.id
             \/ /\ VerifyStep
                /\ Cardinality(users') = Cardinality(users)
                /\ Cardinality(users' \ users) = 1
                /\ \A v \in users' \ users :
                      v.id = last'.token.id /\ v.verified]_vars

\* C19 witness: a signin answered 200 with tokens while the store holds two
\* users; the document the handler read is in the store as it was read.
C19_Witness ==
    /\ Answering("signin")
    /\ last.resp.status = 200
    /\ last.resp.accessToken # NoToken
    /\ Cardinality(users) = 2
    /\ last.existingUser \in users

\* The token names a stored user whose verified flag is true.
NamesVerifiedUser(token) ==
    \E u \in users : u.id = token.id /\ u.email = token.email /\ u.verified

\* C20: every access and refresh token a signin or a refresh has returned,
\* in the answer being given or held by the caller, carries the id and the
\* email of a stored user whose verified flag is true; the answer to a signup
\* carries no access and no refresh token.
C20_IssuedTokensNameVerifiedUsers ==
    /\ \A token \in (held \cup {last.resp.accessToken, last.resp.refreshToken})
                       \ {NoToken} :
          /\ token.secret \in {JWT_SECRET, REFRESH_TOKEN_SECRET}
          /\ NamesVerifiedUser(token)
    /\ Answering("signup") => NoTokensIn(last.resp)
    /\ \A token \in {last.resp.accessToken, last.resp.refreshToken} \ {NoToken} :
          last.op \in {"signin", "refresh"}

\* C20 witness: a refresh answered 200; the caller holds the pair of its
\* signin and an access token of a later refresh, and the store also holds
\* a user who is not verified.
C20_Witness ==
    /\ Answering("refresh")
    /\ last.resp.status = 200
    /\ Cardinality(held) = 3
    /\ \E u \in users : ~u.verified

\* C21: a GET /verify-email request that presents an access or a refresh
\* token the caller was given by signin or refresh is answered 400 "Invalid
\* or expired verification token" and verifies nothing.
C21_VerifyRefusesAccessAndRefreshTokens ==
    (Answering("verify") /\ last.token \in held)
        => /\ last.resp.status = 400
           /\ last.resp.message = "Invalid or expired verification token. Please request a new verification email."

\* C22: a GET /profile request whose bearer credential is a refresh token is
\* answered 403 by the gate and does not reach the handler; a POST /refresh
\* request that presents a token signed with the access secret (an access
\* token or a verification token) is answered 403 and gets no access token.
C22_TokensNotInterchangeable ==
    /\ (/\ Answering("profile")
        /\ last.hdr = "Bearer"
        /\ last.token.secret = REFRESH_TOKEN_SECRET)
          => /\ last.resp.status = 403
             /\ last.resp.message = "Invalid or expired token"
             /\ last.reqUser = NoReqUser
             /\ ~last.unhandled
    /\ (Answering("refresh") /\ last.token.secret = JWT_SECRET)
          => /\ last.resp.status = 403
             /\ last.resp.message = "Invalid refresh token"
             /\ NoTokensIn(last.resp)

\* C22 witness: the unexpired refresh token of the caller's signin presented
\* as bearer credential and answered 403.
C22_Witness ==
    /\ Answering("profile")
    /\ last.hdr = "Bearer"
    /\ last.token \in held
    /\ last.token.secret = REFRESH_TOKEN_SECRET
    /\ now < last.token.exp
    /\ last.resp.status = 403

\* A stored user who is not verified and has no verification token left: the
\* mail was not delivered and is not about to be sent, or the token mailed
\* has expired.
Stranded(u) ==
    /\ u \in users
    /\ ~u.verified
    /\ \A s \in Slots : req[s].pc = "signup_mail" => req[s].newUser.id # u.id
    /\ \A m \in outbox : m.token.id = u.id => now >= m.token.exp

\* C23: a stranded user stays stranded in every step: stored, unverified,
\* and with no unexpired verification token mailed or about to be mailed; a
\* signin for a stranded user's email is answered without tokens, with 401
\* when it passes validation; a valid signup that arrives for a stranded
\* user's email is answered 400 "User already exists".
C23_StrandedUserStaysUnverified ==
    [][/\ \A u \in users : Stranded(u) => Stranded(u)'
       /\ (/\ last'.pc = "done"
           /\ last'.op = "signin"
           /\ \E u \in users : u.email = last'.email /\ Stranded(u))
             => /\ NoTokensIn(last'.resp)
                /\ held' = held
                /\ signinErrors(last'.email, last'.password) = {}
                      => last'.resp.status = 401
       /\ (/\ SignupArrivesAnswered
           /\ signupErrors(last'.fullName, last'.email, last'.password) = {}
           /\ \E u \in users : u.email = last'.email /\ Stranded(u))
             => /\ last'.resp.status = 400
                /\ last'.resp.message = "User already exists"]_vars

\* C23 witness: the correct password of a user whose mailed verification
\* token has expired unconsumed, answered 401.
C23_Witness ==
    /\ SigninValid
    /\ Stored # NoUser
    /\ Stranded(Stored)
    /\ \E m \in outbox : m.token.id = Stored.id
    /\ bcryptCompare(last.password, Stored.password)
    /\ last.resp.status = 401

====
